---- MODULE Spec2Model ----
(***************************************************************************)
(* DailyCounter (src/App.tsx): the daily-log state machine of the tap      *)
(* counter.  Calendar days "YYYY-MM-DD" are modelled as the integers       *)
(* 1..MaxDay (string order = integer order); names are sequences of        *)
(* one-character strings so that trim() and toLowerCase() are computed.    *)
(***************************************************************************)
EXTENDS Integers, Sequences, FiniteSets, TLC

\* ------------------------------------------------------------------ bounds
MaxDay == 2          \* calendar days 1..MaxDay
MaxId == 3           \* generateId() is called at most MaxId times
MaxCount == 2        \* taps are possible while the tally is below MaxCount
MaxSteps == 5        \* handler invocations explored from the fresh store
MaxArchiveSteps == 6 \* the same, in the archive-and-restore scenario
MaxTaps == 7         \* taps in the tally scenario

Days == 1..MaxDay

\* 'ARCHIVED' compares greater than every "YYYY-MM-DD" string ('A' > '2').
ARCHIVED == 99

\* a missing lastActiveDate (data written before the field existed)
NoDate == 0

\* deleteTarget === null
NoTarget == [type |-> "none", projectId |-> 0, date |-> 0, hasHistory |-> FALSE]

\* editingProjectId === null
NoEdit == 0

\* ------------------------------------------------------------------ names
DefaultName == <<"D">>      \* '默認計數 (Default)'
NewItemName == <<"N">>      \* '新項目 (New Item)'

\* What the user can type into a name field.
NameInputs == { <<"d", " ">>, <<" ", "D">>, <<" ">> }

ToLowerChar(c) ==
  CASE c = "D" -> "d"
    [] c = "N" -> "n"
    [] c = "O" -> "o"
    [] OTHER -> c

\* String.prototype.toLowerCase
ToLowerCase(s) == [i \in 1..Len(s) |-> ToLowerChar(s[i])]

RECURSIVE TrimStart(_)
TrimStart(s) ==
  IF s # <<>> /\ Head(s) = " " THEN TrimStart(Tail(s)) ELSE s

RECURSIVE TrimEnd(_)
TrimEnd(s) ==
  IF s # <<>> /\ s[Len(s)] = " " THEN TrimEnd(SubSeq(s, 1, Len(s) - 1)) ELSE s

TrimNothing(s) == s

\* String.prototype.trim
Trim(s) == TrimEnd(TrimStart(s))

\* ------------------------------------------------------------------ logs
EmptyLogs == [d \in {} |-> 0]

\* p.logs[d] || 0
LogGet(logs, d) == IF d \in DOMAIN logs THEN logs[d] ELSE 0

\* { ...logs, [d]: v }
LogSet(logs, d, v) ==
  [x \in (DOMAIN logs) \cup {d} |-> IF x = d THEN v ELSE logs[x]]

\* delete newLogs[d]
LogDelete(logs, d) == [x \in (DOMAIN logs) \ {d} |-> logs[x]]

\* ------------------------------------------------------------------ sequences
RECURSIVE SeqMap(_, _)
SeqMap(F(_), s) ==
  IF s = <<>> THEN <<>> ELSE <<F(Head(s))>> \o SeqMap(F, Tail(s))

RECURSIVE SeqFilter(_, _)
SeqFilter(T(_), s) ==
  IF s = <<>> THEN <<>>
  ELSE (IF T(Head(s)) THEN <<Head(s)>> ELSE <<>>) \o SeqFilter(T, Tail(s))

\* index of the first element satisfying T, 0 when there is none (Array.find)
FindIndex(T(_), s) ==
  IF \E i \in 1..Len(s) : T(s[i])
  THEN CHOOSE i \in 1..Len(s) : T(s[i]) /\ \A j \in 1..(i - 1) : ~T(s[j])
  ELSE 0

Ids(ps) == { ps[i].id : i \in 1..Len(ps) }

ById(ps, id) == ps[CHOOSE i \in 1..Len(ps) : ps[i].id = id]

\* ------------------------------------------------------------------ state
VARIABLES
  today,             \* getTodayString()
  projects,          \* useState<Project[]>
  activeProjectId,   \* useState<string>
  visibleProjects,   \* useMemo value: ids in display order
  deleteTarget,      \* useState: pending delete confirmation
  editingProjectId,  \* useState: project being renamed
  recentNames,       \* useState<string[]>
  statsStartDate,    \* useState<string>: first day of the statistics window
  storage,           \* localStorage
  nextId,            \* number of ids generateId() has handed out, plus 1
  lastOp,            \* history: the handler that ran last
  steps,             \* history: the number of handler invocations so far
  limit,             \* the number of handler invocations explored
  tally,             \* history: taps in total and since the last reset
  worker             \* the service worker: its cache, the server, the last fetch

vars == <<today, projects, activeProjectId, visibleProjects, deleteTarget,
          editingProjectId, recentNames, statsStartDate, storage, nextId,
          lastOp, steps, limit, tally, worker>>

\* ------------------------------------------------------------------ numbers
NaN == [nan |-> TRUE, value |-> 0]

Num(v) == [nan |-> FALSE, value |-> v]

Digit(c) ==
  CASE c = "0" -> 0 [] c = "1" -> 1 [] c = "2" -> 2 [] c = "5" -> 5 [] OTHER -> -1

RECURSIVE DigitsValue(_, _, _)
\* the value of the longest digit prefix of s, NaN when it is empty
DigitsValue(s, acc, seen) ==
  IF s # <<>> /\ Digit(Head(s)) >= 0
  THEN DigitsValue(Tail(s), 10 * acc + Digit(Head(s)), TRUE)
  ELSE IF seen THEN Num(acc) ELSE NaN

\* parseInt(s, 10)
ParseInt(s) ==
  LET t == TrimStart(s)
      neg == t # <<>> /\ Head(t) = "-"
      body == IF t # <<>> /\ Head(t) \in {"-", "+"} THEN Tail(t) ELSE t
      v == DigitsValue(body, 0, FALSE)
  IN IF v.nan THEN NaN ELSE IF neg THEN Num(0 - v.value) ELSE v

\* ------------------------------------------------------------------ projects
\* the object literal of a freshly created project; createdAt (Date.now())
\* is the creation sequence number, which orders projects as the clock does
NewProject(id, name, day) ==
  [id |-> id, name |-> name, count |-> 0, logs |-> EmptyLogs,
   createdAt |-> id, lastActiveDate |-> day]

SetMax(S) == CHOOSE x \in S : \A y \in S : y <= x

\* localStorage without any of the keys the application reads.  A JSON key is
\* absent, or holds text that JSON.parse rejects ("unparsable"), or text that
\* parses to something other than an array ("nonArray"), or an array, whose
\* elements are objects with some or all of the fields of a Project.
EmptyStorage ==
  [hasData |-> FALSE, dataJson |-> "array", data |-> <<>>,        \* bigtap_data_v2
   hasLegacy |-> FALSE, legacyJson |-> "array", legacy |-> <<>>,  \* bigtap_data
   hasOld |-> FALSE, old |-> <<>>,                     \* bigtap_counter_value
   hasRecent |-> FALSE, recent |-> <<>>,               \* bigtap_recent_names
   hasStart |-> FALSE, start |-> 0]                    \* bigtap_stats_start_date

SavedLegacyFirst(st) ==
  IF st.hasLegacy
  THEN [present |-> TRUE, json |-> st.legacyJson, data |-> st.legacy]
  ELSE IF st.hasData THEN [present |-> TRUE, json |-> st.dataJson, data |-> st.data]
  ELSE [present |-> FALSE, json |-> "array", data |-> <<>>]

\* the text the initializer parses: the current key, else the legacy key
Saved(st) ==
  IF st.hasData THEN [present |-> TRUE, json |-> st.dataJson, data |-> st.data]
  ELSE IF st.hasLegacy
  THEN [present |-> TRUE, json |-> st.legacyJson, data |-> st.legacy]
  ELSE [present |-> FALSE, json |-> "array", data |-> <<>>]

\* the single project made of the counter of the oldest version
OldCounterProject(old, day, nid) ==
  LET parsed == ParseInt(old)
      val == IF parsed.nan THEN 0 ELSE parsed.value
  IN [id |-> nid, name |-> DefaultName, count |-> val,
      logs |-> IF val > 0 THEN LogSet(EmptyLogs, day, val) ELSE EmptyLogs,
      createdAt |-> nid, lastActiveDate |-> day]

\* p.lastActiveDate is truthy
HasLastActiveDate(p) == p.lastActiveDate # NoDate

\* p.logs is undefined: Object.keys(p.logs) raises a TypeError
LacksLogs(p) == "logs" \notin DOMAIN p

\* the try block of the initializer raises an exception
LoadThrows(st, day) ==
  LET sv == Saved(st)
      n == Len(sv.data)
      inferred(p) == IF HasLastActiveDate(p) THEN p.lastActiveDate
                     ELSE IF DOMAIN p.logs # {} THEN SetMax(DOMAIN p.logs) ELSE day
  IN /\ sv.present
     /\ \/ sv.json # "array"
        \/ \E i \in 1..n : ~HasLastActiveDate(sv.data[i]) /\ LacksLogs(sv.data[i])
        \/ /\ n > 0
           /\ \E i \in 1..n : LacksLogs(sv.data[i])
           /\ \A i \in 1..n : inferred(sv.data[i]) # day

MigrateProjectToToday(p, day) ==
  IF p.lastActiveDate # NoDate THEN p ELSE [p EXCEPT !.lastActiveDate = day]

\* Load, step 1: infer a missing lastActiveDate
MigrateProject(p, day) ==
  IF p.lastActiveDate # NoDate THEN p
  ELSE [p EXCEPT !.lastActiveDate =
          IF DOMAIN p.logs # {} THEN SetMax(DOMAIN p.logs) ELSE day]

\* Load, step 2: every log key and every lastActiveDate
AllDates(ps) ==
  UNION { DOMAIN ps[i].logs : i \in 1..Len(ps) }
    \cup { ps[i].lastActiveDate : i \in 1..Len(ps) }

CarryProjectByDateOnly(p, latestDate, day) ==
  IF p.lastActiveDate = latestDate
  THEN [p EXCEPT !.count = 0, !.lastActiveDate = day]
  ELSE p

CarryProject(p, latestDate, day) ==
  IF p.lastActiveDate = latestDate \/ LogGet(p.logs, latestDate) > 0
  THEN [p EXCEPT !.count = 0, !.lastActiveDate = day]
  ELSE p

\* Load, step 2: smart carryover
Carryover(ps, day) ==
  IF \E i \in 1..Len(ps) : ps[i].lastActiveDate = day THEN ps
  ELSE LET before == { d \in AllDates(ps) : d < day }
       IN IF before = {} THEN ps
          ELSE LET latestDate == SetMax(before)
                   carry(p) == CarryProject(p, latestDate, day)
               IN SeqMap(carry, ps)

LoadProjectsFresh(st, day, nid) == << NewProject(nid, DefaultName, day) >>

\* the useState initializer of projects: st is localStorage, nid the id
\* generateId() would return
LoadProjects(st, day, nid) ==
  LET loaded == IF Saved(st).present THEN Saved(st).data
                ELSE IF st.hasOld /\ st.old # <<>>
                THEN << OldCounterProject(st.old, day, nid) >>
                ELSE <<>>
      mig(p) == MigrateProject(p, day)
      migrated == SeqMap(mig, loaded)
  IN IF LoadThrows(st, day) THEN << NewProject(nid, DefaultName, day) >>
     ELSE IF migrated = <<>> THEN << NewProject(nid, DefaultName, day) >>
     ELSE Carryover(migrated, day)

\* the useState initializer of recentNames
LoadRecentNames(st) == IF st.hasRecent THEN st.recent ELSE <<>>

\* ------------------------------------------------------------------ visible list
\* the primary collation weight: white space, then digits, then letters
CharRank(c) ==
  CASE c = " " -> 0
    [] c \in {"0", "1", "2", "5"} -> 1 + Digit(c)
    [] c = "a" -> 10
    [] c \in {"d", "D"} -> 11
    [] c = "e" -> 12
    [] c = "f" -> 13
    [] c = "l" -> 14
    [] c \in {"n", "N"} -> 15
    [] c \in {"o", "O"} -> 16
    [] c = "u" -> 17
    [] c = "v" -> 18
    [] OTHER -> 19

IsUpper(c) == c \in {"D", "N", "O"}

RECURSIVE LexLess(_, _, _)
LexLess(K(_), s, t) ==
  IF t = <<>> THEN FALSE
  ELSE IF s = <<>> THEN TRUE
  ELSE IF K(Head(s)) # K(Head(t)) THEN K(Head(s)) < K(Head(t))
  ELSE LexLess(K, Tail(s), Tail(t))

\* a.localeCompare(b) < 0: letters first, then lower case before upper case
LocaleLess(s, t) ==
  LET caseKey(c) == IF IsUpper(c) THEN 1 ELSE 0
      same == Len(s) = Len(t) /\ \A i \in 1..Len(s) : CharRank(s[i]) = CharRank(t[i])
  IN IF same THEN LexLess(caseKey, s, t) ELSE LexLess(CharRank, s, t)

RECURSIVE InsertByName(_, _)
InsertByName(p, sorted) ==
  IF sorted = <<>> THEN <<p>>
  ELSE IF LocaleLess(p.name, Head(sorted).name) THEN <<p>> \o sorted
  ELSE <<Head(sorted)>> \o InsertByName(p, Tail(sorted))

\* a stable sort by name
RECURSIVE SortByName(_)
SortByName(ps) ==
  IF ps = <<>> THEN <<>>
  ELSE InsertByName(ps[Len(ps)], SortByName(SubSeq(ps, 1, Len(ps) - 1)))

IsVisibleTodayOnly(p, active, day) == p.lastActiveDate = day

IsVisible(p, active, day) == p.lastActiveDate = day \/ p.id = active

\* the useMemo body of visibleProjects
VisibleProjects(ps, active, day) ==
  LET keep(p) == IsVisible(p, active, day)
      shown == SeqFilter(keep, ps)
      isActive(p) == p.id = active
      notActive(p) == p.id # active
  IN SeqFilter(isActive, shown) \o SortByName(SeqFilter(notActive, shown))

VisibleIds(ps, active, day) ==
  LET getId(p) == p.id IN SeqMap(getId, VisibleProjects(ps, active, day))

SeqSet(s) == { s[i] : i \in 1..Len(s) }

PersistNothing(st, ps) == st

\* the persistence effect: localStorage.setItem(STORAGE_KEY, JSON.stringify(projects));
\* the text is held as the value JSON.parse reads back from it
Persist(st, ps) == [st EXCEPT !.hasData = TRUE, !.dataJson = "array", !.data = ps]

\* the render after a handler: setProjects always installs a new array, so
\* the visibleProjects memo is recomputed and the persistence effect runs
Render(ps, active, st) ==
  /\ projects' = ps
  /\ activeProjectId' = active
  /\ visibleProjects' = VisibleIds(ps, active, today)
  /\ storage' = Persist(st, ps)

\* bookkeeping of a handler invocation; after a failed render there is no
\* page to interact with
Ran(op) ==
  /\ lastOp # "Crash"
  /\ steps < limit
  /\ steps' = steps + 1
  /\ lastOp' = op
  /\ UNCHANGED <<limit, tally, worker>>

\* ------------------------------------------------------------------ service worker
\* a pathname, as the sequence of its slashes and segments
BASE_URL == <<"/", "DailyCounter", "/">>

IndexHtml == BASE_URL \o <<"index.html">>

ASSETS == { BASE_URL, IndexHtml }

\* the pathnames of the requests that pass through the worker
Paths ==
  { BASE_URL, IndexHtml, BASE_URL \o <<"assets", "/", "index.js">>,
    <<"/", "DailyCounter">>, <<"/", "other", "/", "index.js">> }

Methods == { "GET", "POST" }

\* the number of deployments of the site
MaxVersion == 2

\* String.prototype.startsWith
StartsWith(s, prefix) ==
  Len(s) >= Len(prefix) /\ SubSeq(s, 1, Len(prefix)) = prefix

\* no response
NoResponse == 0

\* after install and activate: the cache holds the responses of cache.addAll(ASSETS)
\* as the server sent them, version 1
InstalledWorker ==
  [cache |-> [path \in Paths |-> IF path \in ASSETS THEN 1 ELSE NoResponse],
   pending |-> {},
   server |-> 1,
   req |-> [method |-> "GET", path |-> BASE_URL],
   online |-> TRUE,
   answer |-> [by |-> "none", res |-> NoResponse]]

\* the delete confirmation overlay covers every other control
ModalOpen == deleteTarget # NoTarget


\* ------------------------------------------------------------------ startup
\* the seed-recent-names effect, run once after mount
RECURSIVE Dedup(_)
Dedup(s) ==
  IF s = <<>> THEN <<>>
  ELSE LET rest == Dedup(SubSeq(s, 1, Len(s) - 1))
       IN IF s[Len(s)] \in SeqSet(rest) THEN rest ELSE Append(rest, s[Len(s)])

RecentLimit == 10

Slice(s, n) == SubSeq(s, 1, IF Len(s) < n THEN Len(s) ELSE n)

SeedRecentNames(recent, ps) ==
  IF recent = <<>> /\ ps # <<>>
  THEN LET nm(p) == Trim(p.name) IN Slice(Dedup(SeqMap(nm, ps)), RecentLimit)
  ELSE recent

\* getSixMonthsAgoString(): a day before every day of the model
SixMonthsAgo == 0

\* the useState initializer of statsStartDate
LoadStatsStartDate(st) == IF st.hasStart THEN st.start ELSE SixMonthsAgo

\* the first render raises a TypeError: uniqueProjectsForSelector and
\* aggregatedStats call p.name.trim() on every project, aggregatedStats and
\* historyData Object.entries(p.logs) and Object.keys(p.logs)
RenderThrows(ps) ==
  \E i \in 1..Len(ps) : "name" \notin DOMAIN ps[i] \/ "logs" \notin DOMAIN ps[i]

\* mounting the component on localStorage st.  When the first render throws,
\* nothing is committed and no effect runs: the page stays blank.
Mount(st, day, nid) ==
  LET ps == LoadProjects(st, day, nid)
      recent == LoadRecentNames(st)
      seeded == SeedRecentNames(recent, ps)
      st1 == IF seeded # recent
             THEN [st EXCEPT !.hasRecent = TRUE, !.recent = seeded] ELSE st
  IN /\ projects' = ps
     /\ statsStartDate' = LoadStatsStartDate(st)
     /\ deleteTarget' = NoTarget
     /\ editingProjectId' = NoEdit
     /\ IF RenderThrows(ps)
        THEN /\ activeProjectId' = IF "id" \in DOMAIN ps[1] THEN ps[1].id ELSE 0
             /\ visibleProjects' = <<>>
             /\ recentNames' = recent
             /\ storage' = st
             /\ nextId' = nid
        ELSE /\ activeProjectId' = ps[1].id
             /\ visibleProjects' = VisibleIds(ps, ps[1].id, day)
             /\ recentNames' = seeded
             /\ storage' = Persist(st1, ps)
             /\ nextId' = IF nid \in Ids(ps) THEN nid + 1 ELSE nid

\* the first mount, on an empty localStorage, on day 1
InitWith(n) ==
  LET ps == LoadProjects(EmptyStorage, 1, 1)
      seeded == SeedRecentNames(LoadRecentNames(EmptyStorage), ps)
  IN /\ today = 1
     /\ projects = ps
     /\ activeProjectId = ps[1].id
     /\ visibleProjects = VisibleIds(ps, ps[1].id, 1)
     /\ recentNames = seeded
     /\ statsStartDate = LoadStatsStartDate(EmptyStorage)
     /\ storage = Persist([EmptyStorage EXCEPT !.hasRecent = TRUE, !.recent = seeded], ps)
     /\ deleteTarget = NoTarget
     /\ editingProjectId = NoEdit
     /\ nextId = 2
     /\ lastOp = "Mount"
     /\ steps = 0
     /\ limit = n
     /\ tally = [total |-> 0, sinceReset |-> 0]
     /\ worker = InstalledWorker

Init == InitWith(MaxSteps)

\* the page is opened or reloaded: every useState initializer runs again
Reload ==
  /\ Mount(storage, today, nextId)
  /\ today' = today
  /\ steps < limit
  /\ steps' = steps + 1
  /\ lastOp' = IF RenderThrows(LoadProjects(storage, today, nextId))
               THEN "Crash" ELSE "Reload"
  /\ UNCHANGED <<limit, tally, worker>>

\* midnight passes
DayChange ==
  /\ today < MaxDay
  /\ today' = today + 1
  /\ Ran("DayChange")
  /\ UNCHANGED <<projects, activeProjectId, visibleProjects, deleteTarget,
                 editingProjectId, recentNames, statsStartDate, storage, nextId>>

\* ------------------------------------------------------------------ handlers
IsTargetAny(p, id) == TRUE

\* the test of prev.map(p => p.id === id ? ... : p)
IsTarget(p, id) == p.id = id

IncrementProjectNoLog(p, day) ==
  [p EXCEPT !.count = p.count + 1, !.lastActiveDate = day]

IncrementProjectKeepDate(p, day) ==
  [p EXCEPT !.count = p.count + 1,
            !.logs = LogSet(p.logs, day, LogGet(p.logs, day) + 1)]

IncrementProject(p, day) ==
  [p EXCEPT !.count = p.count + 1,
            !.lastActiveDate = day,
            !.logs = LogSet(p.logs, day, LogGet(p.logs, day) + 1)]

\* the body of handleIncrement
IncrementActive ==
  /\ ~ModalOpen
  /\ LET step(p) == IF IsTarget(p, activeProjectId)
                    THEN IncrementProject(p, today) ELSE p
     IN Render(SeqMap(step, projects), activeProjectId, storage)
  /\ UNCHANGED <<today, statsStartDate, deleteTarget, editingProjectId, recentNames, nextId>>

handleIncrement ==
  /\ \A i \in 1..Len(projects) :
       projects[i].id = activeProjectId =>
         /\ projects[i].count < MaxCount
         /\ LogGet(projects[i].logs, today) < MaxCount
  /\ IncrementActive
  /\ Ran("Increment")

ResetProjectClearsLog(p, day) ==
  [p EXCEPT !.count = 0, !.lastActiveDate = day, !.logs = LogDelete(p.logs, day)]

ResetProject(p, day) == [p EXCEPT !.count = 0, !.lastActiveDate = day]

\* the body of handleReset
ResetActive ==
  /\ ~ModalOpen
  /\ LET step(p) == IF IsTarget(p, activeProjectId)
                    THEN ResetProject(p, today) ELSE p
     IN Render(SeqMap(step, projects), activeProjectId, storage)
  /\ UNCHANGED <<today, statsStartDate, deleteTarget, editingProjectId, recentNames, nextId>>

handleReset ==
  /\ ResetActive
  /\ Ran("Reset")

\* the predicate of projects.find(...) in handleCreateProject
MatchesArchived(p, trimmedName, day) ==
  /\ ToLowerCase(Trim(p.name)) = ToLowerCase(trimmedName)
  /\ p.lastActiveDate # day

RestoreProjectKeepsCount(p, day) == [p EXCEPT !.lastActiveDate = day]

RestoreProject(p, day) == [p EXCEPT !.lastActiveDate = day, !.count = 0]

UpdateRecentsUncut(recent, trimmedName) ==
  LET other(n) == n # trimmedName
  IN <<trimmedName>> \o SeqFilter(other, recent)

\* [trimmedName, ...recentNames.filter(n => n !== trimmedName)].slice(0, 10)
UpdateRecents(recent, trimmedName) ==
  LET other(n) == n # trimmedName
  IN Slice(<<trimmedName>> \o SeqFilter(other, recent), RecentLimit)

\* the body of handleCreateProject; maxId is the last id generateId() hands out
CreateNamedUpTo(input, maxId) ==
  LET trimmedName == Trim(input)
      match(p) == MatchesArchived(p, trimmedName, today)
      found == FindIndex(match, projects)
      updatedRecents == UpdateRecents(recentNames, trimmedName)
      st == [storage EXCEPT !.hasRecent = TRUE, !.recent = updatedRecents]
  IN /\ ~ModalOpen
     /\ IF trimmedName = <<>>
        THEN UNCHANGED <<today, statsStartDate, projects, activeProjectId, visibleProjects,
                         deleteTarget, editingProjectId, recentNames, storage, nextId>>
        ELSE /\ IF found # 0
                THEN LET id == projects[found].id
                         step(p) == IF p.id = id THEN RestoreProject(p, today) ELSE p
                     IN /\ Render(SeqMap(step, projects), id, st)
                        /\ nextId' = nextId
                ELSE /\ nextId <= maxId
                     /\ Render(Append(projects, NewProject(nextId, trimmedName, today)),
                               nextId, st)
                     /\ nextId' = nextId + 1
             /\ recentNames' = updatedRecents
             /\ UNCHANGED <<today, statsStartDate, deleteTarget, editingProjectId>>

CreateNamed(input) == CreateNamedUpTo(input, MaxId)

handleCreateProject(input) ==
  /\ CreateNamed(input)
  /\ Ran("Create")

\* a click on a row of the project menu
selectProject(id) ==
  /\ ~ModalOpen
  /\ id \in SeqSet(visibleProjects)
  /\ editingProjectId # id
  /\ activeProjectId' = id
  /\ visibleProjects' = IF id # activeProjectId
                        THEN VisibleIds(projects, id, today) ELSE visibleProjects
  /\ Ran("Select")
  /\ UNCHANGED <<today, statsStartDate, projects, deleteTarget, editingProjectId, recentNames,
                 storage, nextId>>

startEditingProject(id) ==
  /\ ~ModalOpen
  /\ id \in SeqSet(visibleProjects)
  /\ editingProjectId # id
  /\ editingProjectId' = id
  /\ Ran("StartEdit")
  /\ UNCHANGED <<today, statsStartDate, projects, activeProjectId, visibleProjects, deleteTarget,
                 recentNames, storage, nextId>>

RenameProjectKeepsDate(p, value, day) == [p EXCEPT !.name = Trim(value)]

RenameProject(p, value, day) ==
  [p EXCEPT !.name = Trim(value), !.lastActiveDate = day]

saveEditingProject(value) ==
  /\ ~ModalOpen
  /\ editingProjectId \in SeqSet(visibleProjects)
  /\ IF Trim(value) # <<>>
     THEN LET step(p) == IF IsTarget(p, editingProjectId)
                         THEN RenameProject(p, value, today) ELSE p
          IN Render(SeqMap(step, projects), activeProjectId, storage)
     ELSE UNCHANGED <<projects, activeProjectId, visibleProjects, storage>>
  /\ editingProjectId' = NoEdit
  /\ Ran("SaveEdit")
  /\ UNCHANGED <<today, statsStartDate, deleteTarget, recentNames, nextId>>

cancelEditingProject ==
  /\ ~ModalOpen
  /\ editingProjectId \in SeqSet(visibleProjects)
  /\ editingProjectId' = NoEdit
  /\ Ran("CancelEdit")
  /\ UNCHANGED <<today, statsStartDate, projects, activeProjectId, visibleProjects, deleteTarget,
                 recentNames, storage, nextId>>

\* the date field of the statistics settings
handleStatsDateChange(val) ==
  /\ ~ModalOpen
  /\ statsStartDate' = val
  /\ storage' = [storage EXCEPT !.hasStart = TRUE, !.start = val]
  /\ Ran("StatsDate")
  /\ UNCHANGED <<today, projects, activeProjectId, visibleProjects, deleteTarget,
                 editingProjectId, recentNames, nextId>>

\* localStorage after the four removeItem calls of handleFactoryReset
RemoveKeys(st) ==
  [st EXCEPT !.hasData = FALSE, !.dataJson = "array", !.data = <<>>,
             !.hasRecent = FALSE, !.recent = <<>>,
             !.hasLegacy = FALSE, !.legacyJson = "array", !.legacy = <<>>,
             !.hasStart = FALSE, !.start = 0]

\* the confirm button of the factory reset dialog
handleFactoryReset ==
  /\ ~ModalOpen
  /\ nextId <= MaxId
  /\ Render(<< NewProject(nextId, DefaultName, today) >>, nextId, RemoveKeys(storage))
  /\ nextId' = nextId + 1
  /\ recentNames' = <<>>
  /\ statsStartDate' = SixMonthsAgo
  /\ Ran("FactoryReset")
  /\ UNCHANGED <<today, deleteTarget, editingProjectId>>

\* ------------------------------------------------------------------ delete
\* logDates.some(date => date !== today && p.logs[date] > 0)
HasHistory(p, day) == \E d \in DOMAIN p.logs : d # day /\ p.logs[d] > 0

requestDeleteProject(id) ==
  /\ ~ModalOpen
  /\ id \in SeqSet(visibleProjects)
  /\ editingProjectId # id
  /\ deleteTarget' = [type |-> "project", projectId |-> id, date |-> 0,
                      hasHistory |-> HasHistory(ById(projects, id), today)]
  /\ Ran("RequestDelete")
  /\ UNCHANGED <<today, statsStartDate, projects, activeProjectId, visibleProjects,
                 editingProjectId, recentNames, storage, nextId>>

\* the rows of the history view carry a delete button per listed item
requestDeleteLog(id, date) ==
  /\ ~ModalOpen
  /\ id \in Ids(projects)
  /\ LogGet(ById(projects, id).logs, date) > 0
  /\ date >= statsStartDate
  /\ deleteTarget' = [type |-> "log", projectId |-> id, date |-> date,
                      hasHistory |-> FALSE]
  /\ Ran("RequestDeleteLog")
  /\ UNCHANGED <<today, statsStartDate, projects, activeProjectId, visibleProjects,
                 editingProjectId, recentNames, storage, nextId>>

cancelDelete ==
  /\ ModalOpen
  /\ deleteTarget' = NoTarget
  /\ Ran("CancelDelete")
  /\ UNCHANGED <<today, statsStartDate, projects, activeProjectId, visibleProjects,
                 editingProjectId, recentNames, storage, nextId>>

ArchiveProjectClearsLogs(p, day) ==
  [p EXCEPT !.count = 0, !.lastActiveDate = ARCHIVED, !.logs = EmptyLogs]

ArchiveProjectKeepsToday(p, day) ==
  [p EXCEPT !.count = 0, !.lastActiveDate = ARCHIVED]

ArchiveProject(p, day) ==
  [p EXCEPT !.count = 0, !.lastActiveDate = ARCHIVED, !.logs = LogDelete(p.logs, day)]

\* projects.filter(p => p.id !== id && p.lastActiveDate === today)
RemainingVisible(ps, id, day) ==
  LET keep(p) == p.id # id /\ p.lastActiveDate = day IN SeqFilter(keep, ps)

RemainingKeepsAll(ps, id) == ps

\* projects.filter(p => p.id !== id)
Remaining(ps, id) == LET keep(p) == p.id # id IN SeqFilter(keep, ps)

\* remaining.find(p => p.lastActiveDate === today) || remaining[0]
NextVisible(remaining, day) ==
  LET isToday(p) == p.lastActiveDate = day
      i == FindIndex(isToday, remaining)
  IN IF i # 0 THEN remaining[i] ELSE remaining[1]

\* executeDelete, deleteTarget.hasHistory: archive
executeArchive ==
  LET id == deleteTarget.projectId
      step(p) == IF p.id = id THEN ArchiveProject(p, today) ELSE p
      archived == SeqMap(step, projects)
      remainingVisible == RemainingVisible(projects, id, today)
  IN /\ deleteTarget.type = "project"
     /\ deleteTarget.hasHistory
     /\ IF activeProjectId = id
        THEN IF remainingVisible # <<>>
             THEN /\ Render(archived, remainingVisible[1].id, storage)
                  /\ nextId' = nextId
             ELSE /\ nextId <= MaxId
                  /\ Render(Append(archived, NewProject(nextId, DefaultName, today)),
                            nextId, storage)
                  /\ nextId' = nextId + 1
        ELSE /\ Render(archived, activeProjectId, storage)
             /\ nextId' = nextId
     /\ deleteTarget' = NoTarget
     /\ Ran("Archive")
     /\ UNCHANGED <<today, statsStartDate, editingProjectId, recentNames>>

ActiveAfterRemoveKept(remaining, id, active, day) == active

\* if (activeProjectId === id) setActiveProjectId(nextVisible.id)
ActiveAfterRemove(remaining, id, active, day) ==
  IF active = id THEN NextVisible(remaining, day).id ELSE active

\* executeDelete, no history: remove
executeRemove ==
  LET id == deleteTarget.projectId
      remaining == Remaining(projects, id)
  IN /\ deleteTarget.type = "project"
     /\ ~deleteTarget.hasHistory
     /\ IF remaining = <<>>
        THEN /\ nextId <= MaxId
             /\ Render(<< NewProject(nextId, NewItemName, today) >>, nextId, storage)
             /\ nextId' = nextId + 1
        ELSE /\ Render(remaining,
                       ActiveAfterRemove(remaining, id, activeProjectId, today),
                       storage)
             /\ nextId' = nextId
     /\ deleteTarget' = NoTarget
     /\ Ran("Remove")
     /\ UNCHANGED <<today, statsStartDate, editingProjectId, recentNames>>

DeleteLogOfClearsCount(p, date) ==
  [p EXCEPT !.logs = LogDelete(p.logs, date), !.count = 0]

DeleteLogOf(p, date) == [p EXCEPT !.logs = LogDelete(p.logs, date)]

\* executeDelete, type 'log'
executeDeleteLog ==
  LET step(p) == IF IsTarget(p, deleteTarget.projectId)
                 THEN DeleteLogOf(p, deleteTarget.date) ELSE p
  IN /\ deleteTarget.type = "log"
     /\ Render(SeqMap(step, projects), activeProjectId, storage)
     /\ deleteTarget' = NoTarget
     /\ Ran("DeleteLog")
     /\ UNCHANGED <<today, statsStartDate, editingProjectId, recentNames, nextId>>

\* ------------------------------------------------------------------ manual log
\* what the user can type into the count field
ManualInputs == { <<>>, <<"x">>, <<"0">>, <<"1">> }

\* the count field is a number input without a min attribute: a signed
\* number can be typed as well
SignedInputs == ManualInputs \cup { <<"-", "1">> }

\* sort by createdAt descending, first project of each trimmed name, first 10
RECURSIVE InsertNewest(_, _)
InsertNewest(p, sorted) ==
  IF sorted = <<>> THEN <<p>>
  ELSE IF p.createdAt > Head(sorted).createdAt THEN <<p>> \o sorted
  ELSE <<Head(sorted)>> \o InsertNewest(p, Tail(sorted))

RECURSIVE SortNewest(_)
SortNewest(ps) ==
  IF ps = <<>> THEN <<>>
  ELSE InsertNewest(ps[Len(ps)], SortNewest(SubSeq(ps, 1, Len(ps) - 1)))

RECURSIVE UniqueByName(_, _)
UniqueByName(ps, seen) ==
  IF ps = <<>> THEN <<>>
  ELSE IF Trim(Head(ps).name) \in seen THEN UniqueByName(Tail(ps), seen)
  ELSE <<Head(ps)>> \o UniqueByName(Tail(ps), seen \cup {Trim(Head(ps).name)})

SelectorLimit == 10

UniqueProjectsForSelector(ps) == Slice(UniqueByName(SortNewest(ps), {}), SelectorLimit)

ManualLogProjectAlwaysCounts(p, date, count, day) ==
  [p EXCEPT !.logs = IF count = 0 THEN LogDelete(p.logs, date)
                     ELSE LogSet(p.logs, date, count),
            !.count = count,
            !.lastActiveDate = day]

ManualLogProject(p, date, count, day) ==
  [p EXCEPT !.logs = IF count = 0 THEN LogDelete(p.logs, date)
                     ELSE LogSet(p.logs, date, count),
            !.count = IF date = day THEN count ELSE p.count,
            !.lastActiveDate = IF date = day THEN day ELSE p.lastActiveDate]

handleManualLogSubmit(id, date, input) ==
  LET count == ParseInt(input)
      step(p) == IF IsTarget(p, id)
                 THEN ManualLogProject(p, date, count.value, today) ELSE p
  IN /\ ~ModalOpen
     /\ date <= today          \* the date field has max = today
     /\ id \in Ids(UniqueProjectsForSelector(projects))
     /\ Ran("ManualLog")
     /\ IF input = <<>> \/ count.nan
        THEN UNCHANGED <<projects, activeProjectId, visibleProjects, storage>>
        ELSE Render(SeqMap(step, projects), activeProjectId, storage)
     /\ UNCHANGED <<today, statsStartDate, deleteTarget, editingProjectId, recentNames, nextId>>

\* ------------------------------------------------------------------ statistics
QualifiesAnyDate(date, count, start) == count > 0

\* date >= statsStartDate && count > 0
Qualifies(date, count, start) == date >= start /\ count > 0

\* the sum of logs[d] over the dates in S
RECURSIVE EntryTotal(_, _)
EntryTotal(logs, S) ==
  IF S = {} THEN 0
  ELSE LET d == CHOOSE x \in S : TRUE IN logs[d] + EntryTotal(logs, S \ {d})

\* what the inner forEach over Object.entries(p.logs) adds for one project
ProjectStats(p, start) ==
  LET q == { d \in DOMAIN p.logs : Qualifies(d, p.logs[d], start) }
  IN [total |-> EntryTotal(p.logs, q), occurrences |-> Cardinality(q)]

\* names that statsByName, an object literal {}, inherits from
\* Object.prototype: statsByName[name] is then a function, never undefined
InheritedKeys == { <<"v", "a", "l", "u", "e", "O", "f">> }

IsInheritedKey(name) == name \in InheritedKeys

\* the name is the canonical text of an array index: Object.entries lists
\* such keys first, in ascending numeric order
IsArrayIndex(name) ==
  /\ name # <<>>
  /\ \A i \in 1..Len(name) : Digit(name[i]) >= 0
  /\ Len(name) > 1 => name[1] # "0"

\* statsByName after projects.forEach: one own property per trimmed name, in
\* the order in which the names were first met.  For an inherited name the
\* test !statsByName[name] is false, no own property is made, and the sums
\* are written to the inherited object instead.
RECURSIVE StatsByName(_, _, _)
StatsByName(ps, start, acc) ==
  IF ps = <<>> THEN acc
  ELSE LET name == Trim(Head(ps).name)
           add == ProjectStats(Head(ps), start)
           hit == { i \in 1..Len(acc) : acc[i].name = name }
           next == IF IsInheritedKey(name) THEN acc
                   ELSE IF hit = {}
                   THEN Append(acc, [name |-> name, total |-> add.total,
                                     occurrences |-> add.occurrences])
                   ELSE LET i == CHOOSE x \in hit : TRUE
                        IN [acc EXCEPT ![i].total = @ + add.total,
                                       ![i].occurrences = @ + add.occurrences]
       IN StatsByName(Tail(ps), start, next)

RECURSIVE InsertByIndex(_, _)
InsertByIndex(r, sorted) ==
  IF sorted = <<>> THEN <<r>>
  ELSE IF ParseInt(r.name).value < ParseInt(Head(sorted).name).value
  THEN <<r>> \o sorted
  ELSE <<Head(sorted)>> \o InsertByIndex(r, Tail(sorted))

RECURSIVE SortByIndex(_)
SortByIndex(rows) ==
  IF rows = <<>> THEN <<>>
  ELSE InsertByIndex(rows[Len(rows)], SortByIndex(SubSeq(rows, 1, Len(rows) - 1)))

\* Object.entries(statsByName): array index keys in ascending order, then
\* the other keys in the order of their creation
OwnEntries(rows) ==
  LET index(r) == IsArrayIndex(r.name)
      other(r) == ~IsArrayIndex(r.name)
  IN SortByIndex(SeqFilter(index, rows)) \o SeqFilter(other, rows)

\* .sort((a, b) => b.total - a.total), a stable sort
RECURSIVE InsertByTotal(_, _)
InsertByTotal(r, sorted) ==
  IF sorted = <<>> THEN <<r>>
  ELSE IF r.total > Head(sorted).total THEN <<r>> \o sorted
  ELSE <<Head(sorted)>> \o InsertByTotal(r, Tail(sorted))

RECURSIVE SortByTotal(_)
SortByTotal(rows) ==
  IF rows = <<>> THEN <<>>
  ELSE InsertByTotal(rows[Len(rows)], SortByTotal(SubSeq(rows, 1, Len(rows) - 1)))

\* the useMemo body of aggregatedStats, for statsStartDate = start
AggregatedStats(ps, start) ==
  LET positive(r) == r.total > 0
  IN SortByTotal(SeqFilter(positive, OwnEntries(StatsByName(ps, start, <<>>))))

\* the dates of historyData: every log key that is start or later
HistoryDates(ps, start) ==
  { d \in UNION { DOMAIN ps[i].logs : i \in 1..Len(ps) } : d >= start }

\* .sort((a, b) => new Date(b).getTime() - new Date(a).getTime())
RECURSIVE SortDatesDesc(_)
SortDatesDesc(S) ==
  IF S = {} THEN <<>>
  ELSE LET m == SetMax(S) IN <<m>> \o SortDatesDesc(S \ {m})

HasEntryAnyValue(p, date) == date \in DOMAIN p.logs

\* (p.logs[date] || 0) > 0
HasEntry(p, date) == LogGet(p.logs, date) > 0

HistoryItems(ps, date) ==
  LET keep(p) == HasEntry(p, date)
      item(p) == [projectId |-> p.id, name |-> p.name, count |-> p.logs[date]]
  IN SeqMap(item, SeqFilter(keep, ps))

\* items.reduce((sum, item) => sum + item.count, 0)
RECURSIVE SumCounts(_)
SumCounts(items) ==
  IF items = <<>> THEN 0 ELSE Head(items).count + SumCounts(Tail(items))

\* the useMemo body of historyData, for statsStartDate = start
HistoryData(ps, start) ==
  LET row(date) == [date |-> date,
                    total |-> SumCounts(HistoryItems(ps, date)),
                    items |-> HistoryItems(ps, date)]
      listed(r) == ~(r.total = 0 /\ r.items = <<>>)
  IN SeqFilter(listed, SeqMap(row, SortDatesDesc(HistoryDates(ps, start))))

\* ------------------------------------------------------------------ specification
Next ==
  \/ handleIncrement
  \/ handleReset
  \/ \E input \in NameInputs : handleCreateProject(input)
  \/ \E id \in 1..MaxId : selectProject(id)
  \/ \E id \in 1..MaxId : startEditingProject(id)
  \/ \E value \in NameInputs : saveEditingProject(value)
  \/ cancelEditingProject
  \/ \E id \in 1..MaxId : requestDeleteProject(id)
  \/ \E id \in 1..MaxId, date \in Days : requestDeleteLog(id, date)
  \/ cancelDelete
  \/ executeArchive
  \/ executeRemove
  \/ executeDeleteLog
  \/ \E id \in 1..MaxId, date \in Days, input \in ManualInputs :
       handleManualLogSubmit(id, date, input)
  \/ handleFactoryReset
  \/ Reload
  \/ DayChange

Spec == Init /\ [][Next]_vars

\* ------------------------------------------------------------------ archive scenario
\* Projects are created, tapped, deleted and created again across days; no
\* renaming, manual log or log deletion.
ArchiveNext ==
  \/ handleIncrement
  \/ \E input \in NameInputs : handleCreateProject(input)
  \/ \E id \in 1..MaxId : selectProject(id)
  \/ \E id \in 1..MaxId : requestDeleteProject(id)
  \/ cancelDelete
  \/ executeArchive
  \/ executeRemove
  \/ Reload
  \/ DayChange

SpecArchive == InitWith(MaxArchiveSteps) /\ [][ArchiveNext]_vars

\* ------------------------------------------------------------------ manual log scenario
\* Counting, creating and editing of the log through the manual log form and
\* the history view, with signed numbers in the count field.
ManualNext ==
  \/ handleIncrement
  \/ \E input \in NameInputs : handleCreateProject(input)
  \/ \E id \in 1..MaxId : selectProject(id)
  \/ \E id \in 1..MaxId, date \in Days : requestDeleteLog(id, date)
  \/ cancelDelete
  \/ executeDeleteLog
  \/ \E id \in 1..MaxId, date \in Days, input \in SignedInputs :
       handleManualLogSubmit(id, date, input)
  \/ DayChange

SpecManual == Init /\ [][ManualNext]_vars

\* ------------------------------------------------------------------ load scenario
\* The page is opened on a collection that earlier sessions left in
\* localStorage, on the day after the last day of those sessions.
LoadDay == MaxDay + 1

\* log entries of the earlier days; a key can be present with the value 0
PastLogs == UNION { [S -> {0, 1}] : S \in SUBSET Days }

StoredDates == {NoDate, ARCHIVED} \cup (1..LoadDay)

StoredProjects(id) ==
  { [id |-> id, name |-> IF id = 1 THEN DefaultName ELSE NewItemName,
     count |-> IF lad = ARCHIVED THEN 0 ELSE 1, logs |-> logs,
     createdAt |-> id, lastActiveDate |-> lad] :
      logs \in PastLogs, lad \in StoredDates }

StoredCollections ==
  { <<p>> : p \in StoredProjects(1) }
    \cup { <<p, q>> : p \in StoredProjects(1), q \in StoredProjects(2) }

\* before the page is opened: nothing is mounted
InitStored ==
  /\ today = LoadDay
  /\ storage \in { [EmptyStorage EXCEPT !.hasData = TRUE, !.data = ps] :
                     ps \in StoredCollections }
  /\ projects = <<>>
  /\ activeProjectId = 0
  /\ visibleProjects = <<>>
  /\ recentNames = <<>>
  /\ statsStartDate = SixMonthsAgo
  /\ deleteTarget = NoTarget
  /\ editingProjectId = NoEdit
  /\ nextId = 3
  /\ lastOp = "Stored"
  /\ steps = 0
  /\ limit = 1
  /\ tally = [total |-> 0, sinceReset |-> 0]
  /\ worker = InstalledWorker

LoadNext == Reload

SpecLoad == InitStored /\ [][LoadNext]_vars

\* ------------------------------------------------------------------ upgrade scenario
\* A user of the oldest version: localStorage holds only the single counter
\* of that version when the page is first opened.
OldCounters == { <<"1">>, <<"2">>, <<"x">> }

InitUpgrade ==
  \E old \in OldCounters :
    LET st == [EmptyStorage EXCEPT !.hasOld = TRUE, !.old = old]
        ps == LoadProjects(st, 1, 1)
        seeded == SeedRecentNames(LoadRecentNames(st), ps)
    IN /\ today = 1
       /\ projects = ps
       /\ activeProjectId = ps[1].id
       /\ visibleProjects = VisibleIds(ps, ps[1].id, 1)
       /\ recentNames = seeded
       /\ statsStartDate = LoadStatsStartDate(st)
       /\ storage = Persist([st EXCEPT !.hasRecent = TRUE, !.recent = seeded], ps)
       /\ deleteTarget = NoTarget
       /\ editingProjectId = NoEdit
       /\ nextId = 2
       /\ lastOp = "Mount"
       /\ steps = 0
       /\ limit = MaxSteps
       /\ tally = [total |-> 0, sinceReset |-> 0]
       /\ worker = InstalledWorker

UpgradeNext ==
  \/ handleIncrement
  \/ \E input \in NameInputs : handleCreateProject(input)
  \/ \E val \in Days : handleStatsDateChange(val)
  \/ handleFactoryReset
  \/ Reload
  \/ DayChange

SpecUpgrade == InitUpgrade /\ [][UpgradeNext]_vars

\* ------------------------------------------------------------------ corrupt store scenario
\* The page is opened on a collection key whose text is not what the
\* application writes: text that is no JSON, JSON that is no array, an empty
\* array, or an array with an object that lacks fields of a project.
CorruptFields == SUBSET {"name", "count", "logs"} \ { {"name", "count", "logs"} }

CorruptProjects ==
  { [f \in F \cup {"id", "createdAt", "lastActiveDate"} |->
       CASE f = "id" -> 1
         [] f = "createdAt" -> 1
         [] f = "lastActiveDate" -> lad
         [] f = "name" -> DefaultName
         [] f = "count" -> 0
         [] f = "logs" -> EmptyLogs] :
      F \in CorruptFields, lad \in {NoDate, LoadDay} }
    \cup { [id |-> 1, createdAt |-> 1, lastActiveDate |-> 1] }

WellFormedProject ==
  [id |-> 2, name |-> NewItemName, count |-> 1,
   logs |-> LogSet(EmptyLogs, LoadDay, 1), createdAt |-> 2,
   lastActiveDate |-> LoadDay]

CorruptTexts ==
  { [json |-> "unparsable", data |-> <<>>],
    [json |-> "nonArray", data |-> <<>>],
    [json |-> "array", data |-> <<>>] }
    \cup { [json |-> "array", data |-> <<e>>] : e \in CorruptProjects }
    \cup { [json |-> "array", data |-> <<e, WellFormedProject>>] : e \in CorruptProjects }
    \cup { [json |-> "array", data |-> <<WellFormedProject, e>>] : e \in CorruptProjects }

CorruptStorages ==
  { [EmptyStorage EXCEPT !.hasData = TRUE, !.dataJson = t.json, !.data = t.data] :
      t \in CorruptTexts }
    \cup { [EmptyStorage EXCEPT !.hasLegacy = TRUE, !.legacyJson = t.json,
                                !.legacy = t.data] : t \in CorruptTexts }

InitCorrupt ==
  /\ today = LoadDay
  /\ storage \in CorruptStorages
  /\ projects = <<>>
  /\ activeProjectId = 0
  /\ visibleProjects = <<>>
  /\ recentNames = <<>>
  /\ statsStartDate = SixMonthsAgo
  /\ deleteTarget = NoTarget
  /\ editingProjectId = NoEdit
  /\ nextId = 3
  /\ lastOp = "Stored"
  /\ steps = 0
  /\ limit = 1
  /\ tally = [total |-> 0, sinceReset |-> 0]
  /\ worker = InstalledWorker

CorruptNext == Reload

SpecCorrupt == InitCorrupt /\ [][CorruptNext]_vars

\* ------------------------------------------------------------------ recent names scenario
\* After a factory reset, which empties the recent names, projects are
\* created one after the other within one day: each time either under a
\* name not used before or under the name at the end of the recent names.
MaxNames == 12

NameChars == <<"d", "D", "n", "N">>

\* sixteen names of two letters; every second one is typed with a leading space
PoolName(k) ==
  LET name == << NameChars[((k - 1) \div 4) + 1], NameChars[((k - 1) % 4) + 1] >>
  IN IF k % 2 = 0 THEN <<" ">> \o name ELSE name

\* the first name of the pool that no project carries
FreshName ==
  PoolName(CHOOSE k \in 1..16 :
             /\ \A i \in 1..Len(projects) : projects[i].name # Trim(PoolName(k))
             /\ \A j \in 1..(k - 1) :
                  \E i \in 1..Len(projects) : projects[i].name = Trim(PoolName(j)))

recentReset ==
  /\ steps = 0
  /\ handleFactoryReset

recentCreateFresh ==
  /\ steps >= 1
  /\ CreateNamedUpTo(FreshName, MaxNames + 2)
  /\ Ran("Create")

recentCreateLast ==
  /\ steps >= 1
  /\ recentNames # <<>>
  /\ CreateNamedUpTo(recentNames[Len(recentNames)], MaxNames + 2)
  /\ Ran("Create")

RecentNext ==
  \/ recentReset
  \/ recentCreateFresh
  \/ recentCreateLast

SpecRecent == InitWith(MaxNames + 1) /\ [][RecentNext]_vars

\* ------------------------------------------------------------------ clean-up scenario
\* The default project is tapped, and on the same or a later day projects
\* and history entries are deleted and the page is reloaded; nothing is
\* created by hand, renamed or logged manually.
MaxCleanupSteps == 9

CleanupNext ==
  \/ handleIncrement
  \/ \E id \in 1..MaxId : requestDeleteProject(id)
  \/ \E id \in 1..MaxId, date \in Days : requestDeleteLog(id, date)
  \/ cancelDelete
  \/ executeArchive
  \/ executeRemove
  \/ executeDeleteLog
  \/ Reload
  \/ DayChange

SpecCleanup == InitWith(MaxCleanupSteps) /\ [][CleanupNext]_vars

\* ------------------------------------------------------------------ statistics scenario
\* Projects are given names that are numbers, or the name of a property every
\* JavaScript object inherits, and are tapped on one day or another.
StatsNameInputs == { <<"2">>, <<"1">>, <<"v", "a", "l", "u", "e", "O", "f">> }

StatsNext ==
  \/ handleIncrement
  \/ \E input \in StatsNameInputs : handleCreateProject(input)
  \/ \E id \in 1..MaxId : selectProject(id)
  \/ DayChange

SpecStats == Init /\ [][StatsNext]_vars

\* ------------------------------------------------------------------ storage sources scenario
\* The page is opened on a store that holds any combination of the current
\* key, the legacy key (projects written before lastActiveDate existed, or
\* with it) and the counter of the oldest version.
LegacyFirst ==
  { q \in StoredProjects(1) : q.lastActiveDate \in {NoDate, ARCHIVED, 1, LoadDay} }

LegacySecond == { q \in StoredProjects(2) : q.lastActiveDate = NoDate }

LegacyCollections ==
  { <<p>> : p \in LegacyFirst }
    \cup { <<p, q>> : p \in LegacyFirst, q \in LegacySecond }

CurrentCollection ==
  << [id |-> 1, name |-> NewItemName, count |-> 2,
      logs |-> LogSet(EmptyLogs, LoadDay, 2), createdAt |-> 1,
      lastActiveDate |-> LoadDay] >>

OldValues == { <<"1">>, <<"2">>, <<"0">>, <<"x">> }

SourceStorages ==
  { [EmptyStorage EXCEPT !.hasData = hasCurrent,
                         !.data = IF hasCurrent THEN CurrentCollection ELSE <<>>,
                         !.hasLegacy = legacy # <<>>, !.legacy = legacy,
                         !.hasOld = old # <<>>, !.old = old] :
      hasCurrent \in BOOLEAN,
      legacy \in {<<>>} \cup LegacyCollections,
      old \in {<<>>, <<"1">>} }
    \cup { [EmptyStorage EXCEPT !.hasOld = TRUE, !.old = old] : old \in OldValues }

InitSources ==
  /\ today = LoadDay
  /\ storage \in SourceStorages
  /\ projects = <<>>
  /\ activeProjectId = 0
  /\ visibleProjects = <<>>
  /\ recentNames = <<>>
  /\ statsStartDate = SixMonthsAgo
  /\ deleteTarget = NoTarget
  /\ editingProjectId = NoEdit
  /\ nextId = 3
  /\ lastOp = "Stored"
  /\ steps = 0
  /\ limit = 1
  /\ tally = [total |-> 0, sinceReset |-> 0]
  /\ worker = InstalledWorker

SourcesNext == Reload

SpecSources == InitSources /\ [][SourcesNext]_vars

\* ------------------------------------------------------------------ service worker scenario
\* The installed worker sees requests of the page and of others, with the
\* network up or down, while the site is deployed anew from time to time.
MaxFetches == 5

appVars == <<today, projects, activeProjectId, visibleProjects, deleteTarget,
             editingProjectId, recentNames, statsStartDate, storage, nextId>>

\* req.method !== 'GET' || !url.pathname.startsWith(BASE_URL), negated
Handled(method, path) == method = "GET" /\ StartsWith(path, BASE_URL)

IsIndexNever(path) == FALSE

\* url.pathname === BASE_URL || url.pathname === BASE_URL + 'index.html'
IsIndex(path) == path = BASE_URL \/ path = IndexHtml

\* what the worker does with the event, and what the page gets: the network
\* response res (the server's version), the cached response, nothing at all
\* (a network error), or whatever the browser does without the worker
Respond(w, method, path, online) ==
  LET res == w.server
      cached == w.cache[path]
      seen == [w EXCEPT !.req = [method |-> method, path |-> path],
                        !.online = online]
      fromNetwork == [seen EXCEPT !.answer = [by |-> "network", res |-> res],
                                  !.pending = @ \cup {[path |-> path, res |-> res]}]
      fromCache == [seen EXCEPT !.answer = [by |-> "cache", res |-> cached]]
      failed == [seen EXCEPT !.answer = [by |-> "error", res |-> NoResponse]]
  IN IF ~Handled(method, path)
     THEN [seen EXCEPT !.answer = [by |-> "untouched", res |-> NoResponse]]
     ELSE IF IsIndex(path)
     THEN IF online THEN fromNetwork
          ELSE IF cached # NoResponse THEN fromCache ELSE failed
     ELSE IF cached # NoResponse THEN fromCache
          ELSE IF online THEN fromNetwork ELSE failed

\* the fetch event listener
fetchEvent(method, path, online) ==
  /\ steps < limit
  /\ worker' = Respond(worker, method, path, online)
  /\ steps' = steps + 1
  /\ lastOp' = "Fetch"
  /\ UNCHANGED <<appVars, limit, tally>>

\* caches.open(CACHE_NAME).then((cache) => cache.put(req, copy)) completes
cachePut ==
  /\ steps < limit
  /\ \E e \in worker.pending :
       worker' = [worker EXCEPT !.cache[e.path] = e.res, !.pending = @ \ {e}]
  /\ steps' = steps + 1
  /\ lastOp' = "CachePut"
  /\ UNCHANGED <<appVars, limit, tally>>

\* a new version of the site is put on the server
deploy ==
  /\ steps < limit
  /\ worker.server < MaxVersion
  /\ worker' = [worker EXCEPT !.server = @ + 1]
  /\ steps' = steps + 1
  /\ lastOp' = "Deploy"
  /\ UNCHANGED <<appVars, limit, tally>>

WorkerNext ==
  \/ \E method \in Methods, path \in Paths, online \in BOOLEAN :
       fetchEvent(method, path, online)
  \/ cachePut
  \/ deploy

SpecWorker == InitWith(MaxFetches) /\ [][WorkerNext]_vars

\* ------------------------------------------------------------------ tally scenario
\* Projects are created on a fresh store, then the active one is only tapped
\* and reset, all within one calendar day.
tallyCreate(input) ==
  /\ lastOp \in {"Mount", "Create"}
  /\ CreateNamed(input)
  /\ lastOp' = "Create"
  /\ UNCHANGED <<steps, limit, tally, worker>>

tallyIncrement ==
  /\ tally.total < MaxTaps
  /\ IncrementActive
  /\ lastOp' = "Increment"
  /\ tally' = [total |-> tally.total + 1, sinceReset |-> tally.sinceReset + 1]
  /\ UNCHANGED <<steps, limit, worker>>

tallyReset ==
  /\ ResetActive
  /\ lastOp' = "Reset"
  /\ tally' = [tally EXCEPT !.sinceReset = 0]
  /\ UNCHANGED <<steps, limit, worker>>

TallyNext ==
  \/ \E input \in NameInputs : tallyCreate(input)
  \/ tallyIncrement
  \/ tallyReset

SpecTally == Init /\ [][TallyNext]_vars

\* ------------------------------------------------------------------ properties
\* the step just taken is an invocation of handler op
Did(op) == lastOp' = op /\ steps' = steps + 1

HasActive == activeProjectId \in Ids(projects)

ActiveProject == ById(projects, activeProjectId)

TodayLog(p) == LogGet(p.logs, today)

C2_ArchivedNeverVisible ==
  \A i \in 1..Len(projects) :
    projects[i].lastActiveDate = ARCHIVED =>
      projects[i].id \notin SeqSet(VisibleIds(projects, activeProjectId, today))

\* C3: while a freshly created project is only tapped and reset within one
\* day, its count is the number of taps since the last Reset (or since
\* creation) and its logs[today] is the total number of taps.
C3_TallyCounts ==
  /\ HasActive
  /\ ActiveProject.count = tally.sinceReset
  /\ TodayLog(ActiveProject) = tally.total

\* 5 taps, a Reset, 2 taps: count 2 and logs[today] 7
C3_Witness ==
  /\ lastOp = "Increment"
  /\ tally = [total |-> 7, sinceReset |-> 2]
  /\ ActiveProject.count = 2
  /\ TodayLog(ActiveProject) = 7

C5_ResetEffect ==
  [][ Did("Reset") /\ HasActive =>
        \A i \in 1..Len(projects) :
          projects[i].id = activeProjectId =>
            /\ projects'[i].count = 0
            /\ projects'[i].lastActiveDate = today
            /\ projects'[i].logs = projects[i].logs
            /\ TodayLog(projects'[i]) >= TodayLog(projects[i])
    ]_vars

\* a Reset has zeroed the count of a project that has taps logged today
C5_Witness ==
  /\ lastOp = "Reset"
  /\ ActiveProject.count = 0
  /\ TodayLog(ActiveProject) = 2

\* the project a pending delete confirmation is about
TargetId == deleteTarget.projectId

\* some log entry dated before day has a value > 0
HistoryBefore(p, day) == \E d \in DOMAIN p.logs : d < day /\ p.logs[d] > 0

\* C6 (as stated): a Create whose name matches an ARCHIVED project
\* case-insensitively after trimming restores that very project: the
\* collection does not grow, the project gets lastActiveDate = today and
\* count = 0 with its logs unchanged, and it becomes the active project.
C6_CreateRestoresArchived ==
  [][ Did("Create") /\ projects' # projects =>
        \A i \in 1..Len(projects) :
          (/\ projects[i].lastActiveDate = ARCHIVED
           /\ ToLowerCase(Trim(projects[i].name)) = ToLowerCase(recentNames'[1])) =>
            /\ Len(projects') = Len(projects)
            /\ projects'[i] = [projects[i] EXCEPT !.lastActiveDate = today, !.count = 0]
            /\ activeProjectId' = projects[i].id
    ]_vars

\* C7 (as stated): a confirmed Delete of a project without a positive log
\* entry before today removes it, and the collection is one project smaller.
C7_DeleteShrinksByOne ==
  [][ (Did("Remove") \/ Did("Archive"))
        /\ ~HistoryBefore(ById(projects, TargetId), today) =>
        /\ TargetId \notin Ids(projects')
        /\ Len(projects') = Len(projects) - 1
    ]_vars

\* C7 (amended): a confirmed Delete whose hasHistory is false removes the
\* project; the collection is one project smaller, except that the only
\* project is replaced by one fresh project, which becomes active.
C7_PermanentDelete ==
  [][ Did("Remove") =>
        /\ TargetId \notin Ids(projects')
        /\ IF Len(projects) = 1
           THEN /\ Len(projects') = 1
                /\ projects'[1].id \notin Ids(projects)
                /\ projects'[1].count = 0
                /\ projects'[1].logs = EmptyLogs
                /\ projects'[1].lastActiveDate = today
                /\ activeProjectId' = projects'[1].id
           ELSE /\ Len(projects') = Len(projects) - 1
                /\ Ids(projects') = Ids(projects) \ {TargetId}
    ]_vars

\* the only project has been deleted and replaced by a fresh one
C7_Witness ==
  /\ lastOp = "Remove"
  /\ Len(projects) = 1
  /\ projects[1].name = NewItemName
  /\ projects[1].id # 1

\* C8 (as stated): a project is removed only if, when it is removed, it has no
\* positive log entry dated before today.
C8_RemovedOnlyWithoutHistory ==
  [][ Did("Remove") => ~HistoryBefore(ById(projects, TargetId), today) ]_vars

\* C9: archival keeps the project in the collection, sets count = 0 and
\* lastActiveDate = ARCHIVED, removes the logs[today] key and leaves every
\* other log entry (and the name, id and createdAt) unchanged.
C9_ArchiveEffect ==
  [][ Did("Archive") =>
        \A i \in 1..Len(projects) :
          projects[i].id = TargetId =>
            /\ i <= Len(projects')
            /\ projects'[i].id = TargetId
            /\ projects'[i].name = projects[i].name
            /\ projects'[i].createdAt = projects[i].createdAt
            /\ projects'[i].count = 0
            /\ projects'[i].lastActiveDate = ARCHIVED
            /\ today \notin DOMAIN projects'[i].logs
            /\ DOMAIN projects'[i].logs = (DOMAIN projects[i].logs) \ {today}
            /\ \A d \in DOMAIN projects'[i].logs :
                 projects'[i].logs[d] = projects[i].logs[d]
    ]_vars

\* a project with a log from an earlier day has just been archived
C9_Witness ==
  /\ lastOp = "Archive"
  /\ \E i \in 1..Len(projects) :
       /\ projects[i].lastActiveDate = ARCHIVED
       /\ projects[i].count = 0
       /\ \E d \in DOMAIN projects[i].logs : d < today /\ projects[i].logs[d] > 0

\* C10 (as stated): when the active project is deleted or archived, the new
\* active project is another project of today if there is one, else another
\* remaining project if there is one, else a fresh default project.
C10_ActiveFallback ==
  [][ (Did("Remove") \/ Did("Archive")) /\ activeProjectId = TargetId =>
        LET others == { i \in 1..Len(projects) : projects[i].id # TargetId }
            todays == { i \in others : projects[i].lastActiveDate = today }
        IN IF todays # {}
           THEN activeProjectId' \in { projects[i].id : i \in todays }
           ELSE IF others # {}
           THEN /\ activeProjectId' \in { projects[i].id : i \in others }
                /\ Ids(projects') \subseteq Ids(projects)
           ELSE /\ activeProjectId' \notin Ids(projects)
                /\ activeProjectId' \in Ids(projects')
    ]_vars

\* C11: a manual log submit of a numeric value for project id and date sets
\* logs[date] to the value when it is not 0 and removes the key when it is 0;
\* for date = today it also sets count to the value and lastActiveDate to
\* today, for another date it leaves both alone; every other log key, and
\* every other project, is unchanged.
C11_ManualLogEffect ==
  [][ Did("ManualLog") =>
        \A id \in 1..MaxId, date \in Days, input \in SignedInputs :
          handleManualLogSubmit(id, date, input) /\ ~ParseInt(input).nan =>
            LET value == ParseInt(input).value
            IN \A i \in 1..Len(projects) :
                 IF projects[i].id # id THEN projects'[i] = projects[i]
                 ELSE /\ value # 0 => /\ date \in DOMAIN projects'[i].logs
                                      /\ projects'[i].logs[date] = value
                      /\ value = 0 => date \notin DOMAIN projects'[i].logs
                      /\ date = today => /\ projects'[i].count = value
                                         /\ projects'[i].lastActiveDate = today
                      /\ date # today =>
                           /\ projects'[i].count = projects[i].count
                           /\ projects'[i].lastActiveDate = projects[i].lastActiveDate
                      /\ (DOMAIN projects'[i].logs) \ {date}
                           = (DOMAIN projects[i].logs) \ {date}
                      /\ \A d \in (DOMAIN projects[i].logs) \ {date} :
                           projects'[i].logs[d] = projects[i].logs[d]
    ]_vars

\* on day 2 a value has been entered for day 1 into a project that was tapped
\* today: the entry is there, count and lastActiveDate are as the tap left them
C11_Witness ==
  /\ lastOp = "ManualLog"
  /\ today = 2
  /\ \E i \in 1..Len(projects) :
       /\ LogGet(projects[i].logs, 1) = -1
       /\ LogGet(projects[i].logs, 2) = 1
       /\ projects[i].count = 1
       /\ projects[i].lastActiveDate = 2

\* C12: a confirmed deletion of a log entry removes exactly the key of that
\* date from the project's logs and leaves its count, lastActiveDate, name
\* and every other log key unchanged, also when the date is today.
C12_DeleteLogEffect ==
  [][ Did("DeleteLog") =>
        \A i \in 1..Len(projects) :
          IF projects[i].id # TargetId THEN projects'[i] = projects[i]
          ELSE /\ DOMAIN projects'[i].logs = (DOMAIN projects[i].logs) \ {deleteTarget.date}
               /\ \A d \in DOMAIN projects'[i].logs :
                    projects'[i].logs[d] = projects[i].logs[d]
               /\ projects'[i].count = projects[i].count
               /\ projects'[i].lastActiveDate = projects[i].lastActiveDate
               /\ projects'[i].name = projects[i].name
    ]_vars

\* today's entry of a tapped project has been deleted: the count is still 1
C12_Witness ==
  /\ lastOp = "DeleteLog"
  /\ HasActive
  /\ ActiveProject.count = 1
  /\ ActiveProject.lastActiveDate = today
  /\ today \notin DOMAIN ActiveProject.logs

\* C13: a Create with a name that is not empty after trimming: when some
\* project has the same name, case-insensitively after trimming, and a
\* lastActiveDate other than today, no project is added and one such project
\* gets lastActiveDate = today and count = 0, its logs unchanged; otherwise
\* exactly one project is added, with the trimmed name, count 0, no logs and
\* lastActiveDate = today.  The affected project becomes the active one.
C13_CreateEffect ==
  [][ \A input \in NameInputs :
        handleCreateProject(input) /\ Trim(input) # <<>> =>
          LET name == Trim(input)
              n == Len(projects)
              such == { i \in 1..n :
                          /\ ToLowerCase(Trim(projects[i].name)) = ToLowerCase(name)
                          /\ projects[i].lastActiveDate # today }
          IN IF such # {}
             THEN \E i \in such :
                    /\ projects' = [projects EXCEPT
                                      ![i] = [projects[i] EXCEPT !.lastActiveDate = today,
                                                                 !.count = 0]]
                    /\ activeProjectId' = projects[i].id
             ELSE /\ Len(projects') = n + 1
                  /\ SubSeq(projects', 1, n) = projects
                  /\ projects'[n + 1].id \notin Ids(projects)
                  /\ projects'[n + 1].name = name
                  /\ projects'[n + 1].count = 0
                  /\ projects'[n + 1].logs = EmptyLogs
                  /\ projects'[n + 1].lastActiveDate = today
                  /\ activeProjectId' = projects'[n + 1].id
    ]_vars

\* a Create has restored a day-stale project that was tapped twice the day
\* before: it is active, of today, its count is 0 and its log is kept
C13_Witness ==
  /\ lastOp = "Create"
  /\ today = 2
  /\ Len(projects) = 1
  /\ projects[1].lastActiveDate = 2
  /\ projects[1].count = 0
  /\ LogGet(projects[1].logs, 1) = 2
  /\ activeProjectId = projects[1].id

\* C14: saving a rename whose new name is not empty after trimming sets the
\* project's name to the trimmed new name and its lastActiveDate to today and
\* leaves its id, count, logs and createdAt unchanged.
C14_RenameEffect ==
  [][ \A value \in NameInputs :
        saveEditingProject(value) /\ Trim(value) # <<>> =>
          /\ Len(projects') = Len(projects)
          /\ \A i \in 1..Len(projects) :
               IF projects[i].id # editingProjectId THEN projects'[i] = projects[i]
               ELSE /\ projects'[i].name = Trim(value)
                    /\ projects'[i].lastActiveDate = today
                    /\ projects'[i].id = projects[i].id
                    /\ projects'[i].count = projects[i].count
                    /\ projects'[i].logs = projects[i].logs
                    /\ projects'[i].createdAt = projects[i].createdAt
    ]_vars

\* a project tapped on day 1 has been renamed on day 2
C14_Witness ==
  /\ lastOp = "SaveEdit"
  /\ today = 2
  /\ \E i \in 1..Len(projects) :
       /\ projects[i].name = <<"d">>
       /\ projects[i].lastActiveDate = 2
       /\ projects[i].count = 1
       /\ LogGet(projects[i].logs, 1) = 1
       /\ today \notin DOMAIN projects[i].logs

Loaded ==
  [i \in 1..Len(storage.data) |->
     IF storage.data[i].lastActiveDate # NoDate THEN storage.data[i]
     ELSE [storage.data[i] EXCEPT !.lastActiveDate =
             IF DOMAIN storage.data[i].logs = {} THEN today
             ELSE CHOOSE d \in DOMAIN storage.data[i].logs :
                    \A e \in DOMAIN storage.data[i].logs : e <= d]]

\* the dates strictly before today among all log keys and lastActiveDates
EarlierDates ==
  { d \in 1..(today - 1) :
      \E i \in 1..Len(Loaded) :
        d \in DOMAIN Loaded[i].logs \/ Loaded[i].lastActiveDate = d }

\* C16: Load applies carryover exactly when no loaded project has
\* lastActiveDate = today: with D the greatest date before today among all
\* log keys and lastActiveDates, every project with lastActiveDate = D or
\* logs[D] > 0 gets lastActiveDate = today and count = 0, every other project
\* is unchanged and no logs change.  When some project is of today already,
\* no project changes.
C16_Carryover ==
  [][ Did("Reload") /\ storage.hasData /\ storage.data # <<>> =>
        /\ Len(projects') = Len(Loaded)
        /\ \A i \in 1..Len(Loaded) : projects'[i].logs = Loaded[i].logs
        /\ IF \E i \in 1..Len(Loaded) : Loaded[i].lastActiveDate = today
           THEN projects' = Loaded
           ELSE \A D \in EarlierDates :
                  (\A e \in EarlierDates : e <= D) =>
                    \A i \in 1..Len(Loaded) :
                      IF Loaded[i].lastActiveDate = D \/ LogGet(Loaded[i].logs, D) > 0
                      THEN projects'[i] = [Loaded[i] EXCEPT !.lastActiveDate = today,
                                                            !.count = 0]
                      ELSE projects'[i] = Loaded[i]
    ]_vars

\* loaded two days after the first project was last active and one day after
\* the second was: the first is as stored, the second is carried over
C16_Witness ==
  /\ lastOp = "Reload"
  /\ today = 3
  /\ Len(projects) = 2
  /\ projects[1].lastActiveDate = 1
  /\ projects[1].count = 1
  /\ LogGet(projects[1].logs, 1) = 1
  /\ projects[2].lastActiveDate = 3
  /\ projects[2].count = 0
  /\ projects[2].logs = EmptyLogs

\* C17: a project leaves the collection only through a confirmed permanent
\* delete, which removes the project the confirmation is about, or through a
\* factory reset; under every other operation every project keeps its place, and no operation changes
\* the id or createdAt of a project that stays.
C17_IdentityKept ==
  [][ IF Did("Remove")
      THEN \A i \in 1..Len(projects) :
             projects[i].id # TargetId =>
               \E k \in 1..Len(projects') :
                 /\ projects'[k].id = projects[i].id
                 /\ projects'[k].createdAt = projects[i].createdAt
      ELSE \/ Did("FactoryReset")
           \/ /\ Len(projects') >= Len(projects)
              /\ \A i \in 1..Len(projects) :
                   /\ projects'[i].id = projects[i].id
                   /\ projects'[i].createdAt = projects[i].createdAt
    ]_vars

\* the page has been reloaded on day 2 with two projects of day 1, one of
\* them tapped: both are still there, carried over
C17_Witness ==
  /\ lastOp = "Reload"
  /\ today = 2
  /\ Len(projects) = 2
  /\ projects[1].id = 1
  /\ projects[2].id = 2
  /\ projects[1].lastActiveDate = 2
  /\ projects[2].lastActiveDate = 2
  /\ \E i \in 1..2 : LogGet(projects[i].logs, 1) = 1

\* C18 (as stated): every project's count is >= 0 and every value in every
\* project's logs is >= 0, whatever integers are entered in the manual log.
C18_NonNegative ==
  \A i \in 1..Len(projects) :
    /\ projects[i].count >= 0
    /\ \A d \in DOMAIN projects[i].logs : projects[i].logs[d] >= 0

\* the total of the positive log values dated start or later of the projects
\* with the trimmed name
NameTotal(name, start) ==
  Cardinality({ t \in (1..Len(projects)) \X Days \X (1..MaxCount) :
                  /\ Trim(projects[t[1]].name) = name
                  /\ t[2] >= start
                  /\ t[3] <= LogGet(projects[t[1]].logs, t[2]) })

\* the days, start or later, with a positive log value under the trimmed name
NameDays(name, start) ==
  { d \in Days : /\ d >= start
                 /\ \E i \in 1..Len(projects) :
                      /\ Trim(projects[i].name) = name
                      /\ LogGet(projects[i].logs, d) > 0 }

\* C19: for every start date the aggregate has one row per trimmed project
\* name whose positive log values dated start or later sum to more than 0; the
\* row's total is that sum, so that no earlier entry contributes and no row
\* has total 0.
C19_AggregateTotals ==
  \A start \in 1..(MaxDay + 1) :
    LET rows == AggregatedStats(projects, start)
    IN /\ \A r \in 1..Len(rows) :
            /\ rows[r].total = NameTotal(rows[r].name, start)
            /\ rows[r].total > 0
            /\ \E i \in 1..Len(projects) : Trim(projects[i].name) = rows[r].name
            /\ \A q \in 1..Len(rows) : rows[q].name = rows[r].name => q = r
       /\ \A i \in 1..Len(projects) :
            NameTotal(Trim(projects[i].name), start) > 0 =>
              \E r \in 1..Len(rows) : rows[r].name = Trim(projects[i].name)

\* two projects of one name, each tapped once on day 1, and a negative entry
\* on day 2: one row of total 2 from day 1, no row from day 2
C19_Witness ==
  /\ today = 2
  /\ Len(projects) = 2
  /\ Trim(projects[1].name) = Trim(projects[2].name)
  /\ \E i \in 1..2 : LogGet(projects[i].logs, 2) < 0
  /\ Len(AggregatedStats(projects, 1)) = 1
  /\ AggregatedStats(projects, 1)[1].total = 2
  /\ AggregatedStats(projects, 2) = <<>>

\* C20 (as stated): in every aggregate row, occurrences is the number of
\* distinct days, start or later, on which the name has a positive log value.
C20_OccurrencesAreDays ==
  \A start \in 1..(MaxDay + 1) :
    LET rows == AggregatedStats(projects, start)
    IN \A r \in 1..Len(rows) :
         rows[r].occurrences = Cardinality(NameDays(rows[r].name, start))

\* the sum of the positive log values of all projects on the date
DayTotal(date) ==
  Cardinality({ t \in (1..Len(projects)) \X (1..MaxCount) :
                  t[2] <= LogGet(projects[t[1]].logs, date) })

\* C21: for every start date the history lists dates in strictly descending
\* order; a date is listed exactly when it is start or later and some project
\* has a positive log value on it; a listed date's total is the sum of the
\* positive log values of all projects on that date.
C21_History ==
  \A start \in 1..(MaxDay + 1) :
    LET rows == HistoryData(projects, start)
    IN /\ \A k \in 1..Len(rows), m \in 1..Len(rows) :
            k < m => rows[k].date > rows[m].date
       /\ \A r \in 1..Len(rows) :
            /\ rows[r].date >= start
            /\ \E i \in 1..Len(projects) : LogGet(projects[i].logs, rows[r].date) > 0
            /\ rows[r].total = DayTotal(rows[r].date)
       /\ \A d \in Days :
            (d >= start /\ \E i \in 1..Len(projects) : LogGet(projects[i].logs, d) > 0)
              => \E r \in 1..Len(rows) : rows[r].date = d

\* on day 2: day 1 has one tap in each of two projects, day 2 only a
\* negative entry; the history from day 1 has the single row of day 1
C21_Witness ==
  /\ today = 2
  /\ Len(projects) = 2
  /\ \E i \in 1..2 : LogGet(projects[i].logs, 2) < 0
  /\ \A i \in 1..2 : LogGet(projects[i].logs, 2) <= 0
  /\ Len(HistoryData(projects, 1)) = 1
  /\ HistoryData(projects, 1)[1].date = 1
  /\ HistoryData(projects, 1)[1].total = 2
  /\ Len(HistoryData(projects, 1)[1].items) = 2

\* C22 (as stated): after a factory reset the collection is one project with
\* count 0, no logs and lastActiveDate today, that project is active, the
\* recent names are empty, and in localStorage the current key holds that one
\* project while the legacy key, the old counter key, the recent names key
\* and the statistics start date key hold nothing.
C22_FactoryResetClearsAll ==
  [][ Did("FactoryReset") =>
        /\ Len(projects') = 1
        /\ projects'[1].count = 0
        /\ projects'[1].logs = EmptyLogs
        /\ projects'[1].lastActiveDate = today'
        /\ activeProjectId' = projects'[1].id
        /\ recentNames' = <<>>
        /\ storage'.hasData /\ storage'.dataJson = "array"
        /\ storage'.data = projects'
        /\ ~storage'.hasLegacy
        /\ ~storage'.hasRecent
        /\ ~storage'.hasStart
        /\ ~storage'.hasOld
    ]_vars

\* C22, apart from the old counter key: everything else the claim says
C22_ResetExceptOldCounter ==
  [][ Did("FactoryReset") =>
        /\ Len(projects') = 1
        /\ projects'[1].count = 0
        /\ projects'[1].logs = EmptyLogs
        /\ projects'[1].lastActiveDate = today'
        /\ activeProjectId' = projects'[1].id
        /\ recentNames' = <<>>
        /\ storage'.hasData /\ storage'.dataJson = "array"
        /\ storage'.data = projects'
        /\ ~storage'.hasLegacy
        /\ ~storage'.hasRecent
        /\ ~storage'.hasStart
    ]_vars

\* C23 (as stated): opening the page on a collection key that holds
\* unparsable text, something that is no usable collection, or an empty
\* collection does not fail, and the collection is then exactly one project
\* with count 0, no logs and lastActiveDate today.
C23_CorruptFallsBack ==
  [][ steps' = steps + 1 =>
        /\ lastOp' = "Reload"
        /\ Len(projects') = 1
        /\ {"count", "logs", "lastActiveDate"} \subseteq DOMAIN projects'[1]
        /\ projects'[1].count = 0
        /\ projects'[1].logs = EmptyLogs
        /\ projects'[1].lastActiveDate = today'
    ]_vars

\* C23, for the texts the initializer rejects: text that is no JSON, JSON
\* that is no array, and the empty array
C23_RejectedTextFallsBack ==
  [][ (steps' = steps + 1 /\ Saved(storage).data = <<>>) =>
        /\ lastOp' = "Reload"
        /\ projects' = << NewProject(nextId, DefaultName, today) >>
    ]_vars

\* a name field that holds nothing but spaces
Blank(input) == \A i \in 1..Len(input) : input[i] = " "

\* count fields that are empty or hold no number
InvalidCounts == { <<>>, <<"x">> }

\* C24: Create with a blank name leaves the collection, the active id and
\* the recent names unchanged; Rename to a blank name leaves the collection
\* unchanged; a manual log entry with an empty or non-numeric count leaves
\* the collection unchanged.
C24_InvalidInputNoOp ==
  [][ /\ \A input \in NameInputs :
           (Blank(input) /\ handleCreateProject(input)) =>
             /\ projects' = projects
             /\ activeProjectId' = activeProjectId
             /\ recentNames' = recentNames
      /\ \A value \in NameInputs :
           (Blank(value) /\ saveEditingProject(value)) => projects' = projects
      /\ \A id \in 1..MaxId, date \in Days, input \in InvalidCounts :
           handleManualLogSubmit(id, date, input) => projects' = projects
    ]_vars

\* the create form was submitted with a blank name on the fresh store
C24_Witness ==
  /\ lastOp = "Create"
  /\ steps = 1
  /\ Len(projects) = 1
  /\ recentNames = << DefaultName >>

\* the names given to projects by Create since the factory reset
CreatedNames == { projects[i].name : i \in 2..Len(projects) }

\* when a project of the name was last created
LatestCreate(name) ==
  SetMax({ projects[i].createdAt : i \in { j \in 2..Len(projects) : projects[j].name = name } })

\* C25: starting from the empty recent names list, after any sequence of
\* Create the list has at most 10 entries and no duplicates, holds the name of
\* the most recent Create first and the other names in the order of their
\* most recent Create, the oldest ones being dropped beyond 10.
C25_RecentNames ==
  steps >= 1 =>
    /\ Len(recentNames) <= 10
    /\ Len(recentNames) = IF Cardinality(CreatedNames) < 10
                          THEN Cardinality(CreatedNames) ELSE 10
    /\ \A k \in 1..Len(recentNames) : recentNames[k] \in CreatedNames
    /\ \A k \in 1..Len(recentNames), m \in 1..Len(recentNames) :
         k < m => /\ recentNames[k] # recentNames[m]
                  /\ LatestCreate(recentNames[k]) > LatestCreate(recentNames[m])
    /\ \A name \in CreatedNames \ SeqSet(recentNames) :
         \A k \in 1..Len(recentNames) :
           LatestCreate(name) < LatestCreate(recentNames[k])
    /\ lastOp = "Create" => recentNames[1] = projects[Len(projects)].name

\* eleven names were created, the first of them has left the list, and the
\* name at the front was created a second time
C25_Witness ==
  /\ Cardinality(CreatedNames) = 11
  /\ Len(recentNames) = 10
  /\ Trim(PoolName(1)) \notin SeqSet(recentNames)
  /\ Cardinality({ i \in 2..Len(projects) : projects[i].name = recentNames[1] }) = 2

\* C26: after every operation that changes the collection, the factory reset
\* included, the collection stored under the current key is the collection
\* in memory.
C26_StoredEqualsMemory ==
  /\ storage.hasData
  /\ storage.dataJson = "array"
  /\ storage.data = projects

\* a factory reset has removed the key and the new collection was written
C26_Witness ==
  /\ lastOp = "FactoryReset"
  /\ storage.data = projects
  /\ Len(projects) = 1
  /\ projects[1].id > 1

\* C27 (as stated): after the page is loaded on a collection the application
\* has written, at least one project has lastActiveDate today.
C27_LoadYieldsProjectOfToday ==
  [][ Did("Reload") =>
        \E i \in 1..Len(projects') : projects'[i].lastActiveDate = today'
    ]_vars

\* C28 (as stated): a project that is ARCHIVED in the stored collection is
\* still ARCHIVED after the page is loaded, on the same or a later day.
C28_ArchivedStaysArchived ==
  [][ Did("Reload") =>
        \A i \in 1..Len(projects) :
          projects[i].lastActiveDate = ARCHIVED =>
            \E k \in 1..Len(projects') :
              /\ projects'[k].id = projects[i].id
              /\ projects'[k].lastActiveDate = ARCHIVED
    ]_vars

\* C29: in every state the active id is the id of a project in the
\* collection, and neither the collection nor the list of today is empty.
C29_ActiveExists ==
  /\ activeProjectId \in Ids(projects)
  /\ projects # <<>>
  /\ VisibleIds(projects, activeProjectId, today) # <<>>
  /\ visibleProjects # <<>>

\* the only project was deleted: a new one has taken its place and is active
C29_Witness ==
  /\ lastOp = "Remove"
  /\ Len(projects) = 1
  /\ projects[1].id = 2
  /\ projects[1].name = NewItemName
  /\ activeProjectId = 2

\* C30: the log entry of a project on a day other than today is left as it
\* is by every step, except for the deletion of that entry in the history
\* view, a manual log entry for that project and day, the permanent deletion
\* of the project and the factory reset.  Tapping, resetting, renaming,
\* creating, archiving and the carryover of a load all leave it alone.
C30_PastLogsImmutable ==
  [][ \A i \in 1..Len(projects), d \in Days :
        d # today =>
          \/ \E k \in 1..Len(projects') :
               /\ projects'[k].id = projects[i].id
               /\ (d \in DOMAIN projects'[k].logs) = (d \in DOMAIN projects[i].logs)
               /\ LogGet(projects'[k].logs, d) = LogGet(projects[i].logs, d)
          \/ /\ Did("DeleteLog")
             /\ deleteTarget.projectId = projects[i].id
             /\ deleteTarget.date = d
          \/ /\ Did("ManualLog")
             /\ \E input \in ManualInputs : handleManualLogSubmit(projects[i].id, d, input)
          \/ /\ Did("Remove")
             /\ TargetId = projects[i].id
          \/ Did("FactoryReset")
    ]_vars

\* on day 2 a project was archived and has kept its entry of day 1
C30_Witness ==
  /\ lastOp = "Archive"
  /\ today = 2
  /\ \E i \in 1..Len(projects) :
       /\ projects[i].lastActiveDate = ARCHIVED
       /\ LogGet(projects[i].logs, 1) > 0

\* every project but the one with the given id, the order of the collection
\* and the active id are the same before and after the step
OthersUntouched(id) ==
  /\ Len(projects') = Len(projects)
  /\ \A i \in 1..Len(projects) :
       /\ projects'[i].id = projects[i].id
       /\ projects[i].id # id => projects'[i] = projects[i]
  /\ activeProjectId' = activeProjectId

\* C31: a tap, a reset, a rename, the deletion of a history entry and a
\* manual log entry change at most the project they are aimed at: every
\* other project, the order of the collection and the active id stay.
C31_OnlyTargetChanges ==
  [][ /\ Did("Increment") => OthersUntouched(activeProjectId)
      /\ Did("Reset") => OthersUntouched(activeProjectId)
      /\ Did("SaveEdit") => OthersUntouched(editingProjectId)
      /\ Did("DeleteLog") => OthersUntouched(deleteTarget.projectId)
      /\ Did("ManualLog") =>
           \E id \in 1..MaxId, date \in Days, input \in SignedInputs :
             /\ handleManualLogSubmit(id, date, input)
             /\ OthersUntouched(id)
    ]_vars

\* two projects of today: the active one was tapped, the other still has
\* count 0 and no log entry
C31_Witness ==
  /\ lastOp = "Increment"
  /\ Len(projects) = 2
  /\ \E i \in 1..2 :
       /\ projects[i].id = activeProjectId
       /\ projects[i].count = 1
       /\ projects[3 - i].count = 0
       /\ projects[3 - i].logs = EmptyLogs
       /\ projects[3 - i].lastActiveDate = today

\* C32 (as stated): no project's logs hold a key with the value 0; a date
\* has either no key or a value other than 0.
C32_NoZeroLogEntry ==
  \A i \in 1..Len(projects) :
    \A d \in DOMAIN projects[i].logs : projects[i].logs[d] # 0

\* C32, the manual log part: a manual log entry of 0 leaves the project
\* without a key for the date, and the statistics from that date on then
\* count nothing of that project for it
C32_ZeroRemovesKey ==
  [][ \A id \in 1..MaxId, d \in Days :
        handleManualLogSubmit(id, d, <<"0">>) =>
          /\ d \notin DOMAIN ById(projects', id).logs
          /\ \A k \in 1..Len(HistoryData(projects', d)) :
               HistoryData(projects', d)[k].date = d =>
                 \A m \in 1..Len(HistoryData(projects', d)[k].items) :
                   HistoryData(projects', d)[k].items[m].projectId # id
    ]_vars

\* the sum of a field of the rows
RECURSIVE SumOf(_, _)
SumOf(rows, field) ==
  IF rows = <<>> THEN 0 ELSE Head(rows)[field] + SumOf(Tail(rows), field)

\* the number of items the history lists
RECURSIVE ItemCount(_)
ItemCount(rows) ==
  IF rows = <<>> THEN 0 ELSE Len(Head(rows).items) + ItemCount(Tail(rows))

\* C33 (as stated): for every start date the aggregate and the history
\* agree: the totals of the aggregate rows add up to the totals of the
\* history dates, and the occurrences of the aggregate rows add up to the
\* number of items the history lists.
C33_AggregateAgreesWithHistory ==
  \A start \in 1..(MaxDay + 1) :
    /\ SumOf(AggregatedStats(projects, start), "total")
         = SumOf(HistoryData(projects, start), "total")
    /\ SumOf(AggregatedStats(projects, start), "occurrences")
         = ItemCount(HistoryData(projects, start))

\* C33, for collections without a project named like an inherited property
C33_AgreesForOwnNames ==
  (\A i \in 1..Len(projects) : ~IsInheritedKey(Trim(projects[i].name)))
    => C33_AggregateAgreesWithHistory

\* the position in the collection of the first project with the trimmed name
FirstOccurrence(name) ==
  CHOOSE i \in 1..Len(projects) :
    /\ Trim(projects[i].name) = name
    /\ \A j \in 1..(i - 1) : Trim(projects[j].name) # name

\* the rows are ordered by non-increasing total
RowsByTotal ==
  \A start \in 1..(MaxDay + 1) :
    LET rows == AggregatedStats(projects, start)
    IN \A k \in 1..Len(rows), m \in 1..Len(rows) :
         k < m => rows[k].total >= rows[m].total

\* C34 (as stated): for every start date the aggregate rows are ordered by
\* non-increasing total, and rows of equal total are in the order in which
\* their names first occur in the collection.
C34_RowOrder ==
  /\ RowsByTotal
  /\ \A start \in 1..(MaxDay + 1) :
       LET rows == AggregatedStats(projects, start)
       IN \A k \in 1..Len(rows), m \in 1..Len(rows) :
            (k < m /\ rows[k].total = rows[m].total)
              => FirstOccurrence(rows[k].name) < FirstOccurrence(rows[m].name)

\* C34, for collections without a project whose name is a number
C34_RowOrderForOtherNames ==
  (\A i \in 1..Len(projects) : ~IsArrayIndex(Trim(projects[i].name)))
    => C34_RowOrder

\* the collection the page finds: under the current key, else the legacy key
Found == IF storage.hasData THEN storage.data ELSE storage.legacy

\* the lastActiveDate a found project has after the first step of Load
InferredDate(p) ==
  IF p.lastActiveDate # NoDate THEN p.lastActiveDate
  ELSE IF DOMAIN p.logs = {} THEN today
  ELSE CHOOSE d \in DOMAIN p.logs : \A e \in DOMAIN p.logs : e <= d

\* the dates before today among the log keys and the inferred dates
EarlierInferred ==
  { d \in 1..(today - 1) :
      \E i \in 1..Len(Found) :
        d \in DOMAIN Found[i].logs \/ InferredDate(Found[i]) = d }

\* C35: Load gives every found project without lastActiveDate the greatest
\* key of its logs, or today when it has no logs, and leaves a recorded
\* lastActiveDate (ARCHIVED included) as it is, before carryover is decided:
\* when some inferred or recorded date is today no project changes any
\* further; otherwise carryover acts on the inferred and recorded dates.
C35_MigrationBeforeCarryover ==
  [][ (Did("Reload") /\ (storage.hasData \/ storage.hasLegacy)) =>
        /\ Len(projects') = Len(Found)
        /\ \A i \in 1..Len(Found) :
             IF \E j \in 1..Len(Found) : InferredDate(Found[j]) = today
             THEN projects'[i] = [Found[i] EXCEPT !.lastActiveDate = InferredDate(Found[i])]
             ELSE IF EarlierInferred = {}
             THEN projects'[i] = [Found[i] EXCEPT !.lastActiveDate = InferredDate(Found[i])]
             ELSE \A D \in EarlierInferred :
                    (\A e \in EarlierInferred : e <= D) =>
                      projects'[i].lastActiveDate =
                        IF InferredDate(Found[i]) = D \/ LogGet(Found[i].logs, D) > 0
                        THEN today ELSE InferredDate(Found[i])
    ]_vars

\* loaded from the legacy key: the first project had no lastActiveDate and
\* log keys 1 and 2 and now has lastActiveDate 2; the second had neither
\* lastActiveDate nor logs and is of today, so nothing was carried over
C35_Witness ==
  /\ lastOp = "Reload"
  /\ Len(projects) = 2
  /\ storage.legacy[1].lastActiveDate = NoDate
  /\ DOMAIN storage.legacy[1].logs = {1, 2}
  /\ projects[1].lastActiveDate = 2
  /\ projects[1].count = 1
  /\ storage.legacy[2].lastActiveDate = NoDate
  /\ storage.legacy[2].logs = EmptyLogs
  /\ projects[2].lastActiveDate = today

\* the number the counter key of the oldest version holds, 0 when its text
\* is no number
OldValue(old) ==
  CASE old = <<"1">> -> 1
    [] old = <<"2">> -> 2
    [] OTHER -> 0

\* C36: Load uses the current key when it is present; the legacy key only
\* when the current key is absent; the counter of the oldest version only
\* when both are absent, and then yields exactly one project with count v,
\* lastActiveDate today and logs {today: v} when v > 0, empty logs when v
\* is 0 or no number.
C36_SourcePriority ==
  [][ Did("Reload") =>
        /\ storage.hasData => projects' = storage.data
        /\ (~storage.hasData /\ storage.hasLegacy) =>
             /\ Len(projects') = Len(storage.legacy)
             /\ \A i \in 1..Len(storage.legacy) :
                  /\ projects'[i].id = storage.legacy[i].id
                  /\ projects'[i].name = storage.legacy[i].name
                  /\ projects'[i].logs = storage.legacy[i].logs
        /\ (~storage.hasData /\ ~storage.hasLegacy /\ storage.hasOld) =>
             /\ Len(projects') = 1
             /\ projects'[1].count = OldValue(storage.old)
             /\ projects'[1].lastActiveDate = today
             /\ projects'[1].logs =
                  IF OldValue(storage.old) > 0
                  THEN [d \in {today} |-> OldValue(storage.old)]
                  ELSE EmptyLogs
    ]_vars

\* only the old counter key was there, holding 2: one project with count 2
\* and 2 logged for today
C36_Witness ==
  /\ lastOp = "Reload"
  /\ storage.hasOld /\ storage.old = <<"2">>
  /\ ~storage.hasLegacy
  /\ Len(projects) = 1
  /\ projects[1].name = DefaultName
  /\ projects[1].count = 2
  /\ projects[1].logs = [d \in {today} |-> 2]
  /\ projects[1].lastActiveDate = today


\* the path lies under the base path of the site
UnderBase(path) ==
  Len(path) >= 3 /\ path[1] = "/" /\ path[2] = "DailyCounter" /\ path[3] = "/"

EntryDocument(path) ==
  path \in { <<"/", "DailyCounter", "/">>, <<"/", "DailyCounter", "/", "index.html">> }

\* C37: the worker handles only GET requests under the base path and leaves
\* every other request untouched, the cache included. For the entry document
\* it answers with the network response whenever the network succeeds, and
\* with the cached copy only when the network fails. For another asset it
\* answers with the cached copy when there is one, and otherwise with the
\* network response, which is then stored in the cache under that path.
C37_WorkerStrategy ==
  [][ /\ lastOp' = "Fetch" =>
           LET r == worker'.req
               a == worker'.answer
               cached == worker.cache[r.path]
               put == [path |-> r.path, res |-> worker.server]
           IN /\ worker'.cache = worker.cache
              /\ (r.method # "GET" \/ ~UnderBase(r.path)) =>
                    /\ a.by = "untouched"
                    /\ worker'.pending = worker.pending
              /\ (r.method = "GET" /\ UnderBase(r.path) /\ EntryDocument(r.path)) =>
                    /\ worker'.online =>
                         /\ a = [by |-> "network", res |-> worker.server]
                         /\ worker'.pending = worker.pending \cup {put}
                    /\ (~worker'.online /\ cached # NoResponse) =>
                         a = [by |-> "cache", res |-> cached]
                    /\ a.by = "cache" => ~worker'.online
              /\ (r.method = "GET" /\ UnderBase(r.path) /\ ~EntryDocument(r.path)) =>
                    /\ cached # NoResponse =>
                         /\ a = [by |-> "cache", res |-> cached]
                         /\ worker'.pending = worker.pending
                    /\ (cached = NoResponse /\ worker'.online) =>
                         /\ a = [by |-> "network", res |-> worker.server]
                         /\ worker'.pending = worker.pending \cup {put}
      /\ lastOp' = "CachePut" =>
           \E e \in worker.pending :
             /\ worker'.cache = [worker.cache EXCEPT ![e.path] = e.res]
             /\ worker'.pending = worker.pending \ {e}
    ]_vars

\* the entry document is answered with the second version from the network
\* although the cache holds the first, and an asset fetched before is
\* answered from the cache
C37_Witness ==
  /\ lastOp = "Fetch"
  /\ worker.req = [method |-> "GET", path |-> BASE_URL]
  /\ worker.online
  /\ worker.answer = [by |-> "network", res |-> 2]
  /\ worker.cache[BASE_URL] = 1
  /\ worker.cache[BASE_URL \o <<"assets", "/", "index.js">>] = 1

====
